---- MODULE Spec2Model ----
(***************************************************************************)
(* Model of PowerLive (src/powerLive.py): the timer-driven sampling loop   *)
(* that reads a smart plug once per tick, keeps a full-history view        *)
(* (x1, y1) and a sliding-window view (x2, y2), and appends every sample   *)
(* to the SQLite table plug_load.                                          *)
(***************************************************************************)
EXTENDS Integers, Sequences, FiniteSets, TLC

\* ---------------------------------------------------------------- bounds
MaxCap == 3          \* largest buffer_length explored (smallest is MinCap)
MaxTicks == 6        \* number of FuncAnimation callbacks explored
MaxFail == 1         \* number of raising callbacks explored
NSlots == 8          \* half-hour slots, from 22:00 on, a record may fall in
NThreads == 2        \* threads sharing one IPUtils object
MaxCalls == 2        \* calls of get_hostname_from_ip made by each thread

\* smallest value buffer_length_type accepts
MinCap == 2

\* power readings the device may return
Powers == {10, 20}

\* readings used when only the two in-memory views are exercised
BufPowers == {10, 20, 30, 40}

\* rows left in plug_load by an earlier run of the program
PriorRow1 == [timestamp |-> 1, power |-> 0, is_valid |-> 0]
PriorRow2 == [timestamp |-> 2, power |-> 20, is_valid |-> 1]
PriorStores == {<< >>, <<PriorRow1, PriorRow2>>}

VARIABLES
    pc,             \* "Idle" | "Running" | "Stopped"
    buffer_length,  \* self.buffer_length
    db_name,        \* TRUE iff a db_name was given
    db_reset,       \* the db_reset argument
    prior,          \* content of plug_load before the program started
    rows,           \* plug_load as seen through self.conn (incl. uncommitted)
    committed,      \* plug_load as durably committed
    x1, y1,         \* full-history lists
    x2, y2,         \* rolling-buffer lists
    ln1, ln2,       \* data last handed to the two plot lines
    pushed,         \* history: every data dict built by update, in order
    now,            \* value the next datetime.utcnow() returns
    timerAlive,     \* TRUE iff the animation timer still fires
    plugCalls,      \* history: names of the Plug methods called so far
    tickNo,         \* number of update callbacks fired
    lastTick,       \* steps performed by the latest callback, in order
    lastOutcome,    \* how the latest callback ended
    nFail,          \* number of callbacks that raised
    nStoreFail      \* number of callbacks in which send_to_sql raised

\* sharedUtils.data_start_from_midnight (src/Utility/sharedUtils.py)
VARIABLES
    h24_pc,         \* "off" | "ready" | "done"
    h24_in,         \* history: the list as it was passed in
    h24_data,       \* the list passed in, which the function rewrites in place
    h24_out         \* the list returned

\* IPUtils.get_hostname_from_ip called by threads (src/InfluxDB/utils.py)
VARIABLES
    ip_pc,              \* per thread: where it is in get_hostname_from_ip
    ip_arg,             \* per thread: the ip it was called with
    ip_tmp,             \* per thread: value read by a pending +=
    ip_calls,           \* per thread: calls made so far
    hostname_lock,      \* 0 when free, else the thread holding the lock
    hostname_ips_known, \* self.hostname_ips_known
    new_hostnames,      \* self.new_hostnames
    flagged_cache,      \* self._local_flagged_hosts_cache
    new_flagged_hosts,  \* self.new_flagged_hosts
    resolved            \* history: ips handed to socket.gethostbyaddr

h24Vars == <<h24_pc, h24_in, h24_data, h24_out>>

ipVars == <<ip_pc, ip_arg, ip_tmp, ip_calls, hostname_lock,
            hostname_ips_known, new_hostnames, flagged_cache,
            new_flagged_hosts, resolved>>

auxVars == <<h24Vars, ipVars>>

vars == <<pc, buffer_length, db_name, db_reset, prior, rows, committed,
          x1, y1, x2, y2, ln1, ln2, pushed, now, timerAlive, plugCalls,
          tickNo, lastTick, lastOutcome, nFail, nStoreFail, auxVars>>

\* data_start_from_midnight is not in use
H24Off ==
    /\ h24_pc = "off"
    /\ h24_in = << >>
    /\ h24_data = << >>
    /\ h24_out = << >>

\* no IPUtils object exists
IPOff ==
    /\ ip_pc = << >>
    /\ ip_arg = << >>
    /\ ip_tmp = << >>
    /\ ip_calls = << >>
    /\ hostname_lock = 0
    /\ hostname_ips_known = << >>
    /\ new_hostnames = 0
    /\ flagged_cache = << >>
    /\ new_flagged_hosts = 0
    /\ resolved = << >>

views == <<x1, y1, x2, y2>>

\* ------------------------------------------------------------- helpers
Last(s) == s[Len(s)]

Zeros(n) == [i \in 1..n |-> 0]

PowersOf(s) == [i \in 1..Len(s) |-> s[i].power]

\* ShellyPlugS.turn_on / get_load / turn_off, as far as the monitor sees
turn_on(calls) == calls \cup {"turn_on"}

get_load(calls) == calls \cup {"get_load"}

turn_off(calls) == calls \cup {"turn_off"}

\* ------------------------------------------------------------ operations
\* PowerLive.update_set_data: ln.set_data(x, y)
update_set_data(x, y) == <<x, y>>

\* mutant: the new value is put in front of the history
update_full_graph_prepend(x, y, data) ==
    [x |-> Append(x, Last(x) + 1), y |-> <<data.power>> \o y]

\* mutant: the new x-coordinate is taken from the length of the history
update_full_graph_lenx(x, y, data) ==
    [x |-> Append(x, Len(x) + 1), y |-> Append(y, data.power)]

\* PowerLive.update_full_graph
update_full_graph(x, y, data) ==
    [x |-> Append(x, Last(x) + 1), y |-> Append(y, data.power)]

\* mutant: pop() instead of pop(0), the newest entry is evicted
update_buffer_graph_popend(x, y, data) ==
    LET xp == SubSeq(x, 1, Len(x) - 1)
        yp == SubSeq(y, 1, Len(y) - 1)
    IN  [x |-> Append(xp, Last(xp) + 1), y |-> Append(yp, data.power)]

\* mutant: the eviction is forgotten
update_buffer_graph_nopop(x, y, data) ==
    [x |-> Append(x, Last(x) + 1), y |-> Append(y, data.power)]

\* mutant: the new x-coordinate repeats the previous one
update_buffer_graph_samex(x, y, data) ==
    LET xp == Tail(x)
        yp == Tail(y)
    IN  [x |-> Append(xp, Last(xp)), y |-> Append(yp, data.power)]

\* PowerLive.update_buffer_graph
update_buffer_graph(x, y, data) ==
    LET xp == Tail(x)
        yp == Tail(y)
    IN  [x |-> Append(xp, Last(xp) + 1), y |-> Append(yp, data.power)]

\* mutant: the validity flag is not passed on
send_to_sql_invalid(table, data) ==
    Append(table, [timestamp |-> data.timestamp, power |-> data.power,
                   is_valid |-> 0])

\* PowerLive.send_to_sql: the INSERT statement
send_to_sql(table, data) ==
    Append(table, [timestamp |-> data.timestamp, power |-> data.power,
                   is_valid |-> data.is_valid])

\* the dict built at the top of PowerLive.update
MakeData(ts, p) == [timestamp |-> ts, power |-> p, is_valid |-> 1]

\* the row inserted by PowerLive.__init__
BootstrapRow(ts) == [timestamp |-> ts, power |-> 0, is_valid |-> 0]

\* mutant: DELETE FROM plug_load is skipped
ResetTable_keep(table, reset) == table

\* rows of plug_load that survive the db_reset branch of __init__
ResetTable(table, reset) == IF reset THEN << >> ELSE table

\* mutant: the timer keeps firing after the window was closed
CanTick_afterStop == pc \in {"Running", "Stopped"} /\ tickNo < MaxTicks

\* the timer fires update while the window is open
CanTick == pc = "Running" /\ timerAlive /\ tickNo < MaxTicks

\* ------------------------------------------------------------------ Init
Init ==
    /\ pc = "Idle"
    /\ buffer_length \in MinCap..MaxCap
    /\ db_name \in BOOLEAN
    /\ db_reset \in BOOLEAN
    /\ prior \in PriorStores
    /\ (~db_name => (prior = << >> /\ ~db_reset))
    /\ rows = prior
    /\ committed = prior
    /\ x1 = << >> /\ y1 = << >> /\ x2 = << >> /\ y2 = << >>
    /\ ln1 = << << >>, << >> >>
    /\ ln2 = << << >>, << >> >>
    /\ pushed = << >>
    /\ now = Len(prior) + 1
    /\ timerAlive = FALSE
    /\ plugCalls = {}
    /\ tickNo = 0
    /\ lastTick = << >>
    /\ lastOutcome = "none"
    /\ nFail = 0
    /\ nStoreFail = 0
    /\ H24Off
    /\ IPOff

\* --------------------------------------------------------------- actions
\* PowerLive.__init__ up to plt.show()
Start ==
    /\ pc = "Idle"
    /\ pc' = "Running"
    /\ IF db_name
       THEN /\ committed' = ResetTable(committed, db_reset)
            /\ rows' = Append(ResetTable(rows, db_reset), BootstrapRow(now))
            /\ now' = now + 1
       ELSE UNCHANGED <<committed, rows, now>>
    /\ x1' = <<0>>
    /\ y1' = <<0>>
    /\ x2' = Zeros(buffer_length + 1)
    /\ y2' = Zeros(buffer_length + 1)
    /\ ln1' = update_set_data(<< >>, << >>)
    /\ ln2' = update_set_data(<< >>, << >>)
    /\ timerAlive' = TRUE
    /\ plugCalls' = turn_on(plugCalls)
    /\ UNCHANGED <<buffer_length, db_name, db_reset, prior, pushed, tickNo,
                   lastTick, lastOutcome, nFail, nStoreFail>>
    /\ UNCHANGED auxVars

\* PowerLive.update, every call returning normally, reading a power in P
UpdateWith(P) ==
    /\ CanTick
    /\ \E p \in P :
         LET data == MakeData(now, p)
             full == update_full_graph(x1, y1, data)
             buf  == update_buffer_graph(x2, y2, data)
         IN  /\ x1' = full.x /\ y1' = full.y
             /\ ln1' = update_set_data(full.x, full.y)
             /\ x2' = buf.x /\ y2' = buf.y
             /\ ln2' = update_set_data(buf.x, buf.y)
             /\ pushed' = Append(pushed, data)
             /\ IF db_name
                THEN /\ rows' = send_to_sql(rows, data)
                     /\ committed' = rows'
                     /\ lastTick' = <<"read", "append1", "render1", "append2",
                                      "render2", "persist">>
                ELSE /\ UNCHANGED <<rows, committed>>
                     /\ lastTick' = <<"read", "append1", "render1", "append2",
                                      "render2">>
    /\ now' = now + 1
    /\ plugCalls' = get_load(plugCalls)
    /\ tickNo' = tickNo + 1
    /\ lastOutcome' = "ok"
    /\ UNCHANGED <<pc, buffer_length, db_name, db_reset, prior, timerAlive,
                   nFail, nStoreFail>>
    /\ UNCHANGED auxVars

Update == UpdateWith(Powers)

\* mutant: a failed read is replaced by a zero reading and plotted
UpdateReadFail_zero ==
    /\ CanTick
    /\ nFail < MaxFail
    /\ x1' = Append(x1, Last(x1) + 1)
    /\ y1' = Append(y1, 0)
    /\ now' = now + 1
    /\ plugCalls' = get_load(plugCalls)
    /\ tickNo' = tickNo + 1
    /\ lastTick' = <<"read", "append1">>
    /\ lastOutcome' = "read_fail"
    /\ nFail' = nFail + 1
    /\ timerAlive' \in BOOLEAN
    /\ UNCHANGED <<pc, buffer_length, db_name, db_reset, prior, rows,
                   committed, x2, y2, ln1, ln2, pushed, nStoreFail>>
    /\ UNCHANGED auxVars

\* PowerLive.update when plug.get_load() raises: nothing after line 104 runs
UpdateReadFail ==
    /\ CanTick
    /\ nFail < MaxFail
    /\ now' = now + 1
    /\ plugCalls' = get_load(plugCalls)
    /\ tickNo' = tickNo + 1
    /\ lastTick' = <<"read">>
    /\ lastOutcome' = "read_fail"
    /\ nFail' = nFail + 1
    /\ timerAlive' \in BOOLEAN
    /\ UNCHANGED <<pc, buffer_length, db_name, db_reset, prior, rows,
                   committed, x1, y1, x2, y2, ln1, ln2, pushed, nStoreFail>>
    /\ UNCHANGED auxVars

\* mutant: send_to_sql is called before the two update_set_data calls, so a
\* raising write leaves the plotted data as it was
UpdateStoreFail_persistFirst ==
    /\ CanTick
    /\ nFail < MaxFail
    /\ db_name
    /\ \E p \in Powers, failAt \in {"execute_fail", "commit_fail"} :
         LET data == MakeData(now, p)
             full == update_full_graph(x1, y1, data)
             buf  == update_buffer_graph(x2, y2, data)
         IN  /\ x1' = full.x /\ y1' = full.y
             /\ x2' = buf.x /\ y2' = buf.y
             /\ pushed' = Append(pushed, data)
             /\ rows' = IF failAt = "commit_fail"
                        THEN send_to_sql(rows, data) ELSE rows
             /\ lastOutcome' = failAt
    /\ lastTick' = <<"read", "append1", "append2", "persist">>
    /\ now' = now + 1
    /\ plugCalls' = get_load(plugCalls)
    /\ tickNo' = tickNo + 1
    /\ nFail' = nFail + 1
    /\ nStoreFail' = nStoreFail + 1
    /\ timerAlive' \in BOOLEAN
    /\ UNCHANGED <<pc, buffer_length, db_name, db_reset, prior, committed,
                   ln1, ln2>>
    /\ UNCHANGED auxVars

\* PowerLive.update when send_to_sql raises, in execute or in commit
UpdateStoreFail ==
    /\ CanTick
    /\ nFail < MaxFail
    /\ db_name
    /\ \E p \in Powers, failAt \in {"execute_fail", "commit_fail"} :
         LET data == MakeData(now, p)
             full == update_full_graph(x1, y1, data)
             buf  == update_buffer_graph(x2, y2, data)
         IN  /\ x1' = full.x /\ y1' = full.y
             /\ ln1' = update_set_data(full.x, full.y)
             /\ x2' = buf.x /\ y2' = buf.y
             /\ ln2' = update_set_data(buf.x, buf.y)
             /\ pushed' = Append(pushed, data)
             /\ rows' = IF failAt = "commit_fail"
                        THEN send_to_sql(rows, data) ELSE rows
             /\ lastOutcome' = failAt
    /\ lastTick' = <<"read", "append1", "render1", "append2", "render2",
                     "persist">>
    /\ now' = now + 1
    /\ plugCalls' = get_load(plugCalls)
    /\ tickNo' = tickNo + 1
    /\ nFail' = nFail + 1
    /\ nStoreFail' = nStoreFail + 1
    /\ timerAlive' \in BOOLEAN
    /\ UNCHANGED <<pc, buffer_length, db_name, db_reset, prior, committed>>
    /\ UNCHANGED auxVars

\* the window is closed: plt.show() and __init__ return, __del__ runs
Close ==
    /\ pc = "Running"
    /\ pc' = "Stopped"
    /\ timerAlive' = FALSE
    /\ rows' = committed
    /\ UNCHANGED <<buffer_length, db_name, db_reset, prior, committed,
                   x1, y1, x2, y2, ln1, ln2, pushed, now, plugCalls,
                   tickNo, lastTick, lastOutcome, nFail, nStoreFail>>
    /\ UNCHANGED auxVars

Next == Start \/ Update \/ UpdateReadFail \/ UpdateStoreFail \/ Close

Spec == Init /\ [][Next]_vars

\* The two views alone: no database, no failing call, readings in BufPowers
InitBuf == Init /\ ~db_name

Push == UpdateWith(BufPowers)

NextBuf == Start \/ Push

SpecBuf == InitBuf /\ [][NextBuf]_vars

\* ------------------------------------------------- construction paths
\* buffer_length_type of the command line: TRUE iff the value is accepted
buffer_length_type(ivalue) == ~(ivalue < MinCap)

\* Either the command line is about to be parsed (pc = "Args") or other code
\* is about to call PowerLive(plug, buffer_length) itself (pc = "Idle"); the
\* requested buffer_length is any natural number up to MaxCap.
InitCtor ==
    /\ pc \in {"Args", "Idle"}
    /\ buffer_length \in 0..MaxCap
    /\ db_name \in BOOLEAN
    /\ db_reset = FALSE
    /\ prior = << >>
    /\ rows = prior
    /\ committed = prior
    /\ x1 = << >> /\ y1 = << >> /\ x2 = << >> /\ y2 = << >>
    /\ ln1 = << << >>, << >> >>
    /\ ln2 = << << >>, << >> >>
    /\ pushed = << >>
    /\ now = Len(prior) + 1
    /\ timerAlive = FALSE
    /\ plugCalls = {}
    /\ tickNo = 0
    /\ lastTick = << >>
    /\ lastOutcome = "none"
    /\ nFail = 0
    /\ nStoreFail = 0
    /\ H24Off
    /\ IPOff

\* the __main__ block: parse_args, which applies buffer_length_type and
\* exits on ArgumentTypeError, then the call of PowerLive
Main ==
    /\ pc = "Args"
    /\ pc' = IF buffer_length_type(buffer_length) THEN "Idle" ELSE "Rejected"
    /\ UNCHANGED <<buffer_length, db_name, db_reset, prior, rows, committed,
                   x1, y1, x2, y2, ln1, ln2, pushed, now, timerAlive,
                   plugCalls, tickNo, lastTick, lastOutcome, nFail,
                   nStoreFail>>
    /\ UNCHANGED auxVars

\* PowerLive.update with a buffer of at least two entries
UpdateOk == Len(x2) >= 2 /\ Update

\* PowerLive.update with buffer_length = 0: x2 is [0], so after
\* update_full_graph ran, x2.pop(0) empties x2 and x2[-1] raises IndexError;
\* on a later tick x2.pop(0) itself raises IndexError on the empty list
UpdateIndexError ==
    /\ CanTick
    /\ Len(x2) <= 1
    /\ \E p \in Powers :
         LET data == MakeData(now, p)
             full == update_full_graph(x1, y1, data)
         IN  /\ x1' = full.x /\ y1' = full.y
             /\ ln1' = update_set_data(full.x, full.y)
             /\ pushed' = Append(pushed, data)
    /\ x2' = IF Len(x2) = 1 THEN Tail(x2) ELSE x2
    /\ lastTick' = <<"read", "append1", "render1">>
    /\ lastOutcome' = "index_error"
    /\ now' = now + 1
    /\ plugCalls' = get_load(plugCalls)
    /\ tickNo' = tickNo + 1
    /\ nFail' = nFail + 1
    /\ timerAlive' \in BOOLEAN
    /\ UNCHANGED <<pc, buffer_length, db_name, db_reset, prior, rows,
                   committed, y2, ln2, nStoreFail>>
    /\ UNCHANGED auxVars

NextCtor == Main \/ Start \/ UpdateOk \/ UpdateIndexError \/ Close

SpecCtor == InitCtor /\ [][NextCtor]_vars

\* ------------------------------------- sharedUtils.data_start_from_midnight
\* no PowerLive object exists
MonitorOff ==
    /\ pc = "Off"
    /\ buffer_length = MinCap
    /\ db_name = FALSE
    /\ db_reset = FALSE
    /\ prior = << >>
    /\ rows = << >>
    /\ committed = << >>
    /\ x1 = << >> /\ y1 = << >> /\ x2 = << >> /\ y2 = << >>
    /\ ln1 = << << >>, << >> >>
    /\ ln2 = << << >>, << >> >>
    /\ pushed = << >>
    /\ now = 0
    /\ timerAlive = FALSE
    /\ plugCalls = {}
    /\ tickNo = 0
    /\ lastTick = << >>
    /\ lastOutcome = "none"
    /\ nFail = 0
    /\ nStoreFail = 0

monitorVars == <<pc, buffer_length, db_name, db_reset, prior, rows, committed,
                 x1, y1, x2, y2, ln1, ln2, pushed, now, timerAlive,
                 plugCalls, tickNo, lastTick, lastOutcome, nFail, nStoreFail>>

\* the timestamp of half-hour slot n, slot 1 being 22:00 of day 1
SlotTime(n) ==
    [day    |-> 1 + ((43 + n) \div 48),
     hour   |-> ((43 + n) \div 2) % 24,
     minute |-> 30 * ((43 + n) % 2)]

\* a row (timestamp, power) as get_data_from_db returns it
SlotRow(n) == <<SlotTime(n), n>>

\* the rows of the slots in S, in ORDER BY timestamp order
RECURSIVE RowsOf(_)
RowsOf(S) ==
    IF S = {} THEN << >>
    ELSE LET n == CHOOSE m \in S : \A k \in S : m <= k
         IN  <<SlotRow(n)>> \o RowsOf(S \ {n})

\* datetime.fromisoformat(timestamp).hour
Hour(timestamp) == timestamp.hour

\* set_same_date with its default year, month, day (2020-01-01 is day 0)
set_same_date(timestamp) ==
    [day |-> 0, hour |-> timestamp.hour, minute |-> timestamp.minute]

\* the loop of data_start_from_midnight from index j on: the final value of i
RECURSIVE MidnightLoop(_, _, _, _)
MidnightLoop(data, j, i, flag) ==
    IF j > Len(data) THEN i
    ELSE IF Hour(data[j][1]) # 0 /\ ~flag
         THEN MidnightLoop(data, j + 1, i + 1, flag)
         ELSE MidnightLoop(data, j + 1, i, FALSE)

\* data after the loop has rewritten every timestamp in place
SameDate(data) ==
    [j \in 1..Len(data) |-> <<set_same_date(data[j][1]), data[j][2]>>]

\* data_start_from_midnight: data[i:] extended by data[:i]
data_start_from_midnight(data) ==
    LET i == MidnightLoop(data, 1, 0, TRUE)
        d == SameDate(data)
    IN  SubSeq(d, i + 1, Len(d)) \o SubSeq(d, 1, i)

\* the caller holds a non-empty list of rows ordered by timestamp
InitMidnight ==
    /\ MonitorOff
    /\ IPOff
    /\ h24_pc = "ready"
    /\ \E S \in (SUBSET (1..NSlots)) \ {{}} : h24_in = RowsOf(S)
    /\ h24_data = h24_in
    /\ h24_out = << >>

\* data = sharedUtils.data_start_from_midnight(data)
CallMidnight ==
    /\ h24_pc = "ready"
    /\ h24_pc' = "done"
    /\ h24_out' = data_start_from_midnight(h24_data)
    /\ h24_data' = SameDate(h24_data)
    /\ UNCHANGED <<h24_in, monitorVars, ipVars>>

NextMidnight == CallMidnight

SpecMidnight == InitMidnight /\ [][NextMidnight]_vars

\* ------------------------------------------ IPUtils.get_hostname_from_ip
Threads == 1..NThreads

\* addresses looked up
IPs == {"ip_a", "ip_b"}

\* what socket.gethostbyaddr(ip)[0] returns
HostOf(ip) == IF ip = "ip_a" THEN "host_a" ELSE "host_b"

\* self.flagged_hosts, as load_flagged_hosts_list returned it
flagged_hosts == {"host_b"}

\* IPUtils.lock: the callable it returns for a function and a locker;
\* "wrapper" takes the locker around the call, "function" does not
lock(locker) == IF locker # "none" THEN "wrapper" ELSE "function"

\* What self.get_hostname_from_ip is after IPUtils.__init__(lock=True):
\* line 40 calls self.lock(self.get_hostname_from_ip, 'hostname_lock') and
\* drops the callable it returns, so the attribute is still the plain method
get_hostname_from_ip_attr ==
    LET dropped == lock("hostname_lock") IN "function"

\* IPUtils(lock=True) exists and is shared by the threads, none of them
\* inside a call
InitIP ==
    /\ MonitorOff
    /\ H24Off
    /\ ip_pc = [t \in Threads |-> "idle"]
    /\ ip_arg = [t \in Threads |-> "none"]
    /\ ip_tmp = [t \in Threads |-> 0]
    /\ ip_calls = [t \in Threads |-> 0]
    /\ hostname_lock = 0
    /\ hostname_ips_known = << >>
    /\ new_hostnames = 0
    /\ flagged_cache = << >>
    /\ new_flagged_hosts = 0
    /\ resolved = << >>

\* thread t calls self.get_hostname_from_ip(ip)
IPCall(t) ==
    /\ ip_pc[t] = "idle"
    /\ ip_calls[t] < MaxCalls
    /\ \E ip \in IPs : ip_arg' = [ip_arg EXCEPT ![t] = ip]
    /\ IF get_hostname_from_ip_attr = "wrapper"
       THEN hostname_lock = 0 /\ hostname_lock' = t
       ELSE UNCHANGED hostname_lock
    /\ ip_pc' = [ip_pc EXCEPT ![t] = "l61"]
    /\ ip_calls' = [ip_calls EXCEPT ![t] = @ + 1]
    /\ UNCHANGED <<ip_tmp, hostname_ips_known, new_hostnames, flagged_cache,
                   new_flagged_hosts, resolved, monitorVars, h24Vars>>

\* line 61: if ip not in self.hostname_ips_known
IPTestKnown(t) ==
    /\ ip_pc[t] = "l61"
    /\ ip_pc' = [ip_pc EXCEPT ![t] =
                    IF ip_arg[t] \in DOMAIN hostname_ips_known
                    THEN "l68" ELSE "l63"]
    /\ UNCHANGED <<ip_arg, ip_tmp, ip_calls, hostname_lock,
                   hostname_ips_known, new_hostnames, flagged_cache,
                   new_flagged_hosts, resolved, monitorVars, h24Vars>>

\* lines 62-65: the blocking lookup, its result (None on socket.herror) stored
IPResolve(t) ==
    /\ ip_pc[t] = "l63"
    /\ \E name \in {HostOf(ip_arg[t]), "None"} :
         hostname_ips_known' = (ip_arg[t] :> name) @@ hostname_ips_known
    /\ resolved' = Append(resolved, ip_arg[t])
    /\ ip_pc' = [ip_pc EXCEPT ![t] = "l66"]
    /\ UNCHANGED <<ip_arg, ip_tmp, ip_calls, hostname_lock, new_hostnames,
                   flagged_cache, new_flagged_hosts, monitorVars, h24Vars>>

\* line 66, first half of self.new_hostnames += 1: the attribute is read
IPReadCount(t) ==
    /\ ip_pc[t] = "l66"
    /\ ip_tmp' = [ip_tmp EXCEPT ![t] = new_hostnames]
    /\ ip_pc' = [ip_pc EXCEPT ![t] = "l66w"]
    /\ UNCHANGED <<ip_arg, ip_calls, hostname_lock, hostname_ips_known,
                   new_hostnames, flagged_cache, new_flagged_hosts, resolved,
                   monitorVars, h24Vars>>

\* line 66, second half: the incremented value is stored
IPWriteCount(t) ==
    /\ ip_pc[t] = "l66w"
    /\ new_hostnames' = ip_tmp[t] + 1
    /\ ip_pc' = [ip_pc EXCEPT ![t] = "l68"]
    /\ UNCHANGED <<ip_arg, ip_tmp, ip_calls, hostname_lock,
                   hostname_ips_known, flagged_cache, new_flagged_hosts,
                   resolved, monitorVars, h24Vars>>

\* lines 68-70: the flagged cache is filled, then tested; when the host is
\* flagged, the first half of self.new_flagged_hosts += 1 reads the attribute
IPTestFlagged(t) ==
    /\ ip_pc[t] = "l68"
    /\ LET ip == ip_arg[t]
           cache == IF ip \in DOMAIN flagged_cache THEN flagged_cache
                    ELSE (ip :> (hostname_ips_known[ip] \in flagged_hosts))
                             @@ flagged_cache
       IN  /\ flagged_cache' = cache
           /\ ip_pc' = [ip_pc EXCEPT ![t] = IF cache[ip] THEN "l71w" ELSE "l73"]
           /\ ip_tmp' = [ip_tmp EXCEPT ![t] =
                            IF cache[ip] THEN new_flagged_hosts ELSE @]
    /\ UNCHANGED <<ip_arg, ip_calls, hostname_lock, hostname_ips_known,
                   new_hostnames, new_flagged_hosts, resolved, monitorVars,
                   h24Vars>>

\* line 71, second half: the incremented value is stored
IPWriteFlagged(t) ==
    /\ ip_pc[t] = "l71w"
    /\ new_flagged_hosts' = ip_tmp[t] + 1
    /\ ip_pc' = [ip_pc EXCEPT ![t] = "l73"]
    /\ UNCHANGED <<ip_arg, ip_tmp, ip_calls, hostname_lock,
                   hostname_ips_known, new_hostnames, flagged_cache, resolved,
                   monitorVars, h24Vars>>

\* line 73: the call returns (and the wrapper, were it in place, would
\* release the locker)
IPReturn(t) ==
    /\ ip_pc[t] = "l73"
    /\ ip_pc' = [ip_pc EXCEPT ![t] = "idle"]
    /\ hostname_lock' = IF hostname_lock = t THEN 0 ELSE hostname_lock
    /\ UNCHANGED <<ip_arg, ip_tmp, ip_calls, hostname_ips_known,
                   new_hostnames, flagged_cache, new_flagged_hosts, resolved,
                   monitorVars, h24Vars>>

NextIP ==
    \E t \in Threads :
        \/ IPCall(t)
        \/ IPTestKnown(t)
        \/ IPResolve(t)
        \/ IPReadCount(t)
        \/ IPWriteCount(t)
        \/ IPTestFlagged(t)
        \/ IPWriteFlagged(t)
        \/ IPReturn(t)

SpecIP == InitIP /\ [][NextIP]_vars

\* ---------------------------------------------------------------- claims
\* number of samples pushed so far
K == Len(pushed)

\* the (x, value) pairs a view shows
Snapshot(x, y) == [i \in 1..Len(x) |-> <<x[i], y[i]>>]

\* the last n elements of s
LastN(s, n) == SubSeq(s, Len(s) - n + 1, Len(s))

\* number of earlier rows still in plug_load after __init__
Kept == IF db_reset THEN 0 ELSE Len(prior)

\* rows of a table written by ticks of this run
StoredSamples(table) == SubSeq(table, Kept + 2, Len(table))

\* C1 as stated: after k >= capacity pushes the rolling buffer's snapshot has
\* exactly capacity pairs, the last capacity pushed values in push order, and
\* capacity 3 with pushes 10, 20, 30, 40 gives (1,20), (2,30), (3,40).
C1_Original ==
    (pc # "Idle" /\ K >= buffer_length) =>
        /\ Len(x2) = buffer_length
        /\ Len(y2) = buffer_length
        /\ y2 = LastN(PowersOf(pushed), buffer_length)
        /\ (buffer_length = 3 /\ PowersOf(pushed) = <<10, 20, 30, 40>>) =>
               Snapshot(x2, y2) = << <<1, 20>>, <<2, 30>>, <<3, 40>> >>

\* C1 amended: after k >= capacity pushes the rolling buffer's snapshot has
\* exactly capacity + 1 pairs with x-coordinates k - capacity .. k; its last
\* capacity values are the last capacity pushed values in push order, and its
\* first value is the push before them (the zero baseline when k = capacity).
\* Capacity 3 with pushes 10, 20, 30, 40 gives (1,10), (2,20), (3,30), (4,40).
C1_Amended ==
    (pc # "Idle" /\ K >= buffer_length) =>
        /\ Len(x2) = buffer_length + 1
        /\ Len(y2) = buffer_length + 1
        /\ Tail(y2) = LastN(PowersOf(pushed), buffer_length)
        /\ y2[1] = IF K = buffer_length THEN 0
                   ELSE pushed[K - buffer_length].power
        /\ \A i \in 1..(buffer_length + 1) : x2[i] = K - buffer_length + i - 1
        /\ (buffer_length = 3 /\ PowersOf(pushed) = <<10, 20, 30, 40>>) =>
               Snapshot(x2, y2) =
                   << <<1, 10>>, <<2, 20>>, <<3, 30>>, <<4, 40>> >>

\* C1 witness: capacity 3 after the pushes 10, 20, 30, 40
C1_Witness ==
    buffer_length = 3 /\ PowersOf(pushed) = <<10, 20, 30, 40>>

\* C2: the rolling buffer starts with buffer_length + 1 zero entries, and in
\* every state after construction x2 and y2 both have buffer_length + 1
\* entries, however many pushes were made.
C2_BufferLengthFixed ==
    pc # "Idle" =>
        /\ Len(x2) = buffer_length + 1
        /\ Len(y2) = buffer_length + 1
        /\ K = 0 => (x2 = Zeros(buffer_length + 1) /\ y2 = Zeros(buffer_length + 1))

\* C2 witness: more pushes than the buffer has entries, a failed tick between
C2_Witness ==
    pc = "Running" /\ K > buffer_length + 1 /\ nFail > 0

\* C3 as stated: after k pushes the full-history series has exactly k entries,
\* the k pushed values in push order.
C3_Original ==
    pc # "Idle" =>
        /\ Len(x1) = K
        /\ Len(y1) = K
        /\ y1 = PowersOf(pushed)

\* C3 amended: after k pushes the full-history series has exactly k + 1
\* entries: the zero baseline point (0, 0) of construction followed by the k
\* pushed values in push order at x = 1 .. k; nothing is ever evicted.
C3_Amended ==
    pc # "Idle" =>
        /\ Len(x1) = K + 1
        /\ y1 = <<0>> \o PowersOf(pushed)
        /\ x1 = [i \in 1..(K + 1) |-> i - 1]

\* C3 witness: four pushes made
C3_Witness ==
    pc = "Running" /\ K = 4 /\ Len(y1) = 5

\* C4 as stated: the first pushed value gets x = 0, each later push the
\* previous x plus 1, and the x-coordinates of every snapshot of the rolling
\* buffer are strictly increasing.
C4_Original ==
    pc # "Idle" =>
        /\ K >= 1 => Last(x2) = K - 1
        /\ \A i, j \in 1..Len(x2) : i < j => x2[i] < x2[j]

\* C4 amended: the first pushed value gets x = 1 and each later push the
\* previous x plus 1, so the k-th push gets x = k; the x-coordinates of a
\* snapshot never decrease, and are strictly increasing (by 1) once
\* k >= buffer_length pushes were made (before that the zero baseline
\* entries all have x = 0).
C4_Amended ==
    pc # "Idle" =>
        /\ Last(x2) = K
        /\ \A i, j \in 1..Len(x2) : i < j => x2[i] <= x2[j]
        /\ K >= buffer_length =>
               \A i \in 1..(Len(x2) - 1) : x2[i + 1] = x2[i] + 1

\* C4 witness: pushed values have been evicted
C4_Witness ==
    pc = "Running" /\ K = buffer_length + 2 /\ x2[1] = 2

\* C5: a tick whose device read fails leaves x1, y1, x2, y2 and the plotted
\* data unchanged and appends nothing to plug_load.
C5_ReadFailLeavesState ==
    [][(tickNo' = tickNo + 1 /\ lastOutcome' = "read_fail") =>
          /\ x1' = x1 /\ y1' = y1 /\ x2' = x2 /\ y2' = y2
          /\ ln1' = ln1 /\ ln2' = ln2
          /\ rows' = rows /\ committed' = committed
          /\ lastTick' = <<"read">>]_vars

\* C5 witness: a read failed while running, with samples and a store present
C5_Witness ==
    pc = "Running" /\ lastOutcome = "read_fail" /\ db_name /\ K >= 1

\* C6: started with a database, db_reset and earlier rows in plug_load, the
\* monitor first removes every earlier row, then writes one zero-valued
\* bootstrap row, then one row per successful tick in tick order: while it
\* runs the table is the bootstrap row followed by the n samples, and from
\* the first tick on that content is committed.
C6_ResetBootstrapThenSamples ==
    (pc # "Idle" /\ db_name /\ db_reset /\ nStoreFail = 0) =>
        /\ pc = "Running" =>
               /\ Len(rows) = K + 1
               /\ rows[1].power = 0
               /\ rows[1].timestamp = Len(prior) + 1
               /\ Tail(rows) = pushed
        /\ K >= 1 =>
               /\ Len(committed) = K + 1
               /\ committed[1].power = 0
               /\ Tail(committed) = pushed
        /\ \A i \in 1..Len(rows) : \A j \in 1..Len(prior) : rows[i] # prior[j]

\* C6 witness: earlier rows existed, reset was asked, three ticks succeeded
C6_Witness ==
    /\ pc = "Running" /\ db_name /\ db_reset /\ prior # << >>
    /\ nStoreFail = 0 /\ K = 3 /\ Len(committed) = 4

\* C7: a stop takes effect between ticks only: when the monitor is stopped
\* after n ticks pushed a sample (and no write to the store failed), exactly
\* those n samples are plotted in both views and, with a database, exactly
\* those n samples are committed; and once stopped no tick runs any more:
\* views, plotted data and table never change again.
C7_StopAtTickBoundary ==
    /\ [](( pc = "Stopped" /\ nStoreFail = 0) =>
            /\ K >= 1 => (ln1 = <<x1, y1>> /\ ln2 = <<x2, y2>>)
            /\ K = 0 => (ln1 = << << >>, << >> >> /\ ln2 = ln1)
            /\ Tail(y1) = PowersOf(pushed)
            /\ LastN(y2, IF K < Len(y2) THEN K ELSE Len(y2)) =
                   LastN(PowersOf(pushed), IF K < Len(y2) THEN K ELSE Len(y2))
            /\ db_name => StoredSamples(committed) = pushed
            /\ rows = committed)
    /\ [][pc = "Stopped" =>
            UNCHANGED <<x1, y1, x2, y2, ln1, ln2, rows, committed, pushed,
                        tickNo>>]_vars

\* C7 witness: stopped after tick 5, while a sixth tick was still possible
C7_Witness ==
    /\ pc = "Stopped" /\ db_name /\ nStoreFail = 0
    /\ tickNo = 5 /\ K = 5 /\ tickNo < MaxTicks

\* C8 as stated: whenever the monitor has left Running for Stopped, the
\* plug's turn_off has been issued.
C8_PowerOffOnStop ==
    pc = "Stopped" => "turn_off" \in plugCalls

\* C9 as stated: every row this run writes to the store has valid = true.
C9_Original ==
    pc # "Idle" =>
        \A i \in (Kept + 1)..Len(rows) : rows[i].is_valid = 1

\* C9 amended: every row written for a tick is stored with valid = true and
\* every plotted point other than the zero baseline is the power of such a
\* sample; the one row this run writes with valid = false is the zero-valued
\* bootstrap row written at start.
C9_Amended ==
    pc # "Idle" =>
        /\ \A i \in (Kept + 2)..Len(rows) : rows[i].is_valid = 1
        /\ \A i \in (Kept + 2)..Len(committed) : committed[i].is_valid = 1
        /\ \A i \in 1..K : pushed[i].is_valid = 1
        /\ Tail(y1) = PowersOf(pushed)
        /\ (pc = "Running" /\ db_name) =>
               (rows[Kept + 1].is_valid = 0 /\ rows[Kept + 1].power = 0)

\* C9 witness: a store holding the bootstrap row and two samples
C9_Witness ==
    pc = "Running" /\ db_name /\ K >= 2 /\ Len(rows) = Kept + 3

\* C10 as stated: after a tick in which the write to the store failed, the
\* sampling loop is still alive and both views hold that tick's sample
\* exactly once.
C10_StoreFailureKeepsLoop ==
    (pc = "Running" /\ lastOutcome \in {"execute_fail", "commit_fail"}) =>
        /\ timerAlive
        /\ y1 = <<0>> \o PowersOf(pushed)
        /\ Last(y2) = Last(pushed).power
        /\ Last(x2) = K

\* C11 as stated: no monitor with buffer_length < 2 ever reaches Running or
\* executes a tick.
C11_SmallCapacityRejected ==
    buffer_length < MinCap => (pc \notin {"Running", "Stopped"} /\ tickNo = 0)

\* position of a step in the latest tick (0 when the tick did not reach it)
Pos(step) ==
    IF \E i \in 1..Len(lastTick) : lastTick[i] = step
    THEN CHOOSE i \in 1..Len(lastTick) : lastTick[i] = step
    ELSE 0

\* the order in which update performs its steps
StepOrder == <<"read", "append1", "render1", "append2", "render2", "persist">>

\* C12 as stated: within a tick that persists its sample, the persistence
\* append happens before the render request of either view.
C12_Original ==
    (pc # "Idle" /\ db_name /\ lastOutcome = "ok" /\ tickNo > 0) =>
        /\ Pos("persist") > 0
        /\ Pos("persist") < Pos("render1")
        /\ Pos("persist") < Pos("render2")

\* C12 amended: ticks never overlap and each tick performs its steps in the
\* order read device -> append to the full-history view -> render request
\* for it -> append to the rolling buffer -> render request for it ->
\* persist sample: the persistence append comes after the render requests
\* of both views, so a tick whose write raises has already handed the new
\* sample to both plot lines.
C12_Amended ==
    (pc # "Idle" /\ tickNo > 0) =>
        /\ \E n \in 1..Len(StepOrder) : lastTick = SubSeq(StepOrder, 1, n)
        /\ lastOutcome = "ok" =>
               /\ Len(lastTick) = IF db_name THEN 6 ELSE 5
               /\ ln1 = <<x1, y1>> /\ ln2 = <<x2, y2>>
        /\ lastOutcome \in {"execute_fail", "commit_fail"} =>
               /\ Pos("render1") > 0 /\ Pos("render1") < Pos("persist")
               /\ Pos("render2") > 0 /\ Pos("render2") < Pos("persist")
               /\ ln1 = <<x1, y1>> /\ ln2 = <<x2, y2>>
               /\ Last(ln1[2]) = Last(pushed).power
               /\ Last(ln2[2]) = Last(pushed).power
               /\ lastOutcome = "execute_fail" =>
                      (rows = << >> \/ Last(rows) # Last(pushed))
        /\ lastOutcome = "read_fail" => lastTick = <<"read">>

\* C12 witness: a second tick has persisted its sample
C12_Witness ==
    pc = "Running" /\ db_name /\ lastOutcome = "ok" /\ tickNo >= 2
        /\ Last(rows) = Last(pushed)

\* C15: after k >= buffer_length pushes, x2 and y2 are exactly the last
\* buffer_length + 1 elements of x1 and y1, point for point in order.
C15_BufferIsTailOfHistory ==
    (pc # "Idle" /\ K >= buffer_length) =>
        /\ Len(x1) >= buffer_length + 1
        /\ x2 = LastN(x1, buffer_length + 1)
        /\ y2 = LastN(y1, buffer_length + 1)
        /\ Snapshot(x2, y2) = LastN(Snapshot(x1, y1), buffer_length + 1)

\* C15 witness: the history is longer than the buffer and both are plotted
C15_Witness ==
    /\ pc = "Running" /\ K = buffer_length + 2
    /\ Len(x1) > Len(x2) /\ y2[1] # 0

\* index of the first record of s whose hour is 0 (0 when there is none)
FirstMidnight(s) ==
    IF \E j \in 1..Len(s) : s[j][1].hour = 0
    THEN CHOOSE j \in 1..Len(s) :
             s[j][1].hour = 0 /\ \A k \in 1..(j - 1) : s[k][1].hour # 0
    ELSE 0

\* C13 as stated: for a list ordered by timestamp that holds a record with
\* hour 0, data_start_from_midnight returns the rotation that starts at the
\* first record whose hour is 0: the records before it follow at the end in
\* their original order, every record keeping its time of day and value.
C13_RotationToFirstMidnight ==
    (h24_pc = "done" /\ FirstMidnight(h24_in) > 0) =>
        LET p == FirstMidnight(h24_in)
            n == Len(h24_in)
            rot == SubSeq(h24_in, p, n) \o SubSeq(h24_in, 1, p - 1)
        IN  /\ Len(h24_out) = n
            /\ \A j \in 1..n :
                   /\ h24_out[j][2] = rot[j][2]
                   /\ h24_out[j][1].hour = rot[j][1].hour
                   /\ h24_out[j][1].minute = rot[j][1].minute

\* threads currently inside get_hostname_from_ip
Inside == {t \in DOMAIN ip_pc : ip_pc[t] # "idle"}

\* C14 as stated: with lock=True no two threads are ever inside
\* get_hostname_from_ip at once, so no ip is resolved twice and, whenever no
\* call is in progress, new_hostnames counts every resolved ip.
C14_LookupsSerialized ==
    /\ Cardinality(Inside) <= 1
    /\ \A i, j \in 1..Len(resolved) : i # j => resolved[i] # resolved[j]
    /\ Inside = {} => new_hostnames = Len(resolved)

====
